---------------------------- MODULE Spec2Model ----------------------------
(***************************************************************************)
(* Model of the Braincast App component (src/src/App.tsx): the three React *)
(* state cells screen / btcPrice / report, the async handler               *)
(* startBraincast (two fetches and a 3500 ms timer joined by Promise.all,  *)
(* then normalisation of the two results), the handler newReport, and the  *)
(* render function that decides which button exists on which screen.       *)
(*                                                                         *)
(* JavaScript values are tagged records.  Numbers are kept in hundredths   *)
(* (65000.7 is Num(6500070), -2.76 is Num(-276), 113279 is Num(11327900)), *)
(* so that Math.round has something to round.                              *)
(***************************************************************************)
EXTENDS Integers, FiniteSets, Sequences, TLC

VARIABLES screen, btcPrice, report, runs

vars == <<screen, btcPrice, report, runs>>

(***************************************************************************)
(* Bounds of the model.                                                    *)
(***************************************************************************)
\* Number of startBraincast invocations explored.
MaxRuns == 2
\* Largest number of fields present in an object returned by the report endpoint.
MaxFields == 3
\* Granularity of elapsed time, in ms.
TickMs == 1750

\* setTimeout(resolve, 3500)
DelayMs == 3500

(***************************************************************************)
(* JavaScript values.                                                      *)
(***************************************************************************)
Undefined == [t |-> "undefined"]
JNull == [t |-> "null"]
Num(n) == [t |-> "number", n |-> n]
Str(s) == [t |-> "string", s |-> s]
Obj(f) == [t |-> "object", f |-> f]
\* An object whose property reads throw (what a non-conforming res.json() may hand back).
Poison == [t |-> "poison"]
\* A promise that has not settled yet.
Pending == [t |-> "pending"]

\* ToBoolean, as used by &&, || and if.
Truthy(v) ==
    CASE v.t = "undefined" -> FALSE
      [] v.t = "null" -> FALSE
      [] v.t = "number" -> v.n # 0
      [] v.t = "string" -> v.s # ""
      [] OTHER -> TRUE

\* a || b
Or(a, b) == IF Truthy(a) THEN a ELSE b

\* Mutant of Coalesce: only undefined falls through, null is kept
CoalesceUndefinedOnly(a, b) == IF a.t = "undefined" THEN b ELSE a

\* a ?? b
Coalesce(a, b) == IF a.t \in {"undefined", "null"} THEN b ELSE a

\* o.k for a non-nullish o that is not a throwing object
GetProp(o, k) == IF o.t = "object" /\ k \in DOMAIN o.f THEN o.f[k] ELSE Undefined

\* o?.k
OptGetProp(o, k) == IF o.t \in {"undefined", "null"} THEN Undefined ELSE GetProp(o, k)

\* Reading a property of d throws.
Throws(d) == d.t = "poison"

\* Mutant of Math_round: Math.floor
Math_floor(n) == (n \div 100) * 100

\* Math.round on hundredths: floor(x + 0.5)
Math_round(n) == ((n + 50) \div 100) * 100

(***************************************************************************)
(* What the two endpoints can deliver.  JNull is what .catch(() => null)   *)
(* turns a network failure or a non-JSON body into.                        *)
(***************************************************************************)
PriceObjects ==
    { Obj([price |-> p, change24h |-> c]) :
        p \in {Undefined, Str("not-a-number"), Num(6500070), Num(-250)},
        c \in {Undefined, Num(120)} }

PriceResults == {JNull, Num(0), Poison} \cup PriceObjects

ReportFields ==
    [ signal : {Undefined, Str(""), Str("SHORT"), Str("BUY")},
      direction : {Undefined, Str("NONE")},
      entryPrice : {Undefined, JNull, Num(7000000)},
      technicalData : {Undefined, Obj([entryPrice |-> Num(6900000)])},
      targetPrice : {Undefined, Num(7200000)},
      exitPrice : {Undefined, Num(7300000)},
      stopPrice : {Undefined, Num(7100000)},
      stopLoss : {Undefined, Num(7150000)},
      leverage : {Undefined, Num(1000)} ]

ReportObjects ==
    { Obj(f) : f \in { g \in ReportFields :
                         Cardinality({k \in DOMAIN g : g[k] # Undefined}) <= MaxFields } }

ReportResults == {JNull, Num(1), Poison} \cup ReportObjects

(***************************************************************************)
(* Fallback data.                                                          *)
(***************************************************************************)
FallbackBtcPrice == [price |-> Num(11327900), change24h |-> Num(-276)]

FallbackReport ==
    [ direction |-> Str("LONG"),
      entryPrice |-> Num(11950000),
      targetPrice |-> Num(12150000),
      stopPrice |-> Num(11920000),
      leverage |-> Num(3000) ]

(***************************************************************************)
(* Normalisation of the two results (the body of the try block).           *)
(***************************************************************************)
\* Mutant of ProcessPrice: the else branch is missing, btcPrice keeps its value
ProcessPriceNoFallback(priceData) ==
    IF Truthy(priceData) /\ GetProp(priceData, "price").t = "number"
    THEN [ price |-> Num(Math_round(GetProp(priceData, "price").n)),
           change24h |-> IF GetProp(priceData, "change24h").t = "number"
                         THEN GetProp(priceData, "change24h")
                         ELSE Num(0) ]
    ELSE btcPrice

\* Process BTC price
ProcessPrice(priceData) ==
    IF Truthy(priceData) /\ GetProp(priceData, "price").t = "number"
    THEN [ price |-> Num(Math_round(GetProp(priceData, "price").n)),
           change24h |-> IF GetProp(priceData, "change24h").t = "number"
                         THEN GetProp(priceData, "change24h")
                         ELSE Num(0) ]
    ELSE FallbackBtcPrice

\* Process trade report
ProcessReport(reportData) ==
    IF Truthy(reportData)
       /\ Truthy(Or(GetProp(reportData, "signal"), GetProp(reportData, "direction")))
    THEN [ direction |-> Or(GetProp(reportData, "signal"),
                            Or(GetProp(reportData, "direction"), Str("LONG"))),
           entryPrice |-> Coalesce(GetProp(reportData, "entryPrice"),
                            Coalesce(OptGetProp(GetProp(reportData, "technicalData"),
                                                "entryPrice"),
                                     Num(11950000))),
           targetPrice |-> Coalesce(GetProp(reportData, "targetPrice"),
                             Coalesce(GetProp(reportData, "exitPrice"), Num(12150000))),
           stopPrice |-> Coalesce(GetProp(reportData, "stopPrice"),
                           Coalesce(GetProp(reportData, "stopLoss"), Num(11920000))),
           leverage |-> Coalesce(GetProp(reportData, "leverage"), Num(3000)) ]
    ELSE FallbackReport

\* The statements of the try block in order; the first throwing read stops it.
TryBlock(priceData, reportData) ==
    IF Throws(priceData)
    THEN [threw |-> TRUE, btcPrice |-> btcPrice, report |-> report]
    ELSE IF Throws(reportData)
    THEN [threw |-> TRUE, btcPrice |-> ProcessPrice(priceData), report |-> report]
    ELSE [threw |-> FALSE, btcPrice |-> ProcessPrice(priceData),
          report |-> ProcessReport(reportData)]

\* catch (err): use fallback data
CatchBlock(s) ==
    IF s.threw
    THEN [btcPrice |-> FallbackBtcPrice, report |-> FallbackReport]
    ELSE [btcPrice |-> s.btcPrice, report |-> s.report]

(***************************************************************************)
(* Invocations of startBraincast.  pc is "idle" before the invocation,     *)
(* "await" while it is suspended at Promise.all, "fulfilled" once it has   *)
(* returned and "rejected" once an exception has left it.                  *)
(***************************************************************************)
IdleRun ==
    [ pc |-> "idle", pricePromise |-> Pending, reportPromise |-> Pending,
      delayPromise |-> "pending", elapsed |-> 0 ]

RunIds == 1 .. MaxRuns

\* Mutant of PromiseAllSettled: delayPromise is left out of Promise.all
PromiseAllWithoutDelay(run) ==
    /\ run.pricePromise # Pending
    /\ run.reportPromise # Pending

\* Promise.all([pricePromise, reportPromise, delayPromise]) has resolved.
PromiseAllSettled(run) ==
    /\ run.pricePromise # Pending
    /\ run.reportPromise # Pending
    /\ run.delayPromise = "resolved"

(***************************************************************************)
(* What the render function offers.                                        *)
(***************************************************************************)
\* Mutant of StartButtonRendered: the button is on every screen
StartButtonAlways == TRUE

\* <button onClick={startBraincast}> exists on the landing screen only.
StartButtonRendered == screen = "landing"

\* Mutant of NewReportButtonRendered: the button is on the loading screen too
NewReportButtonOnLoading == screen \in {"loading", "report"}

\* <button onClick={newReport}> exists on the report screen only.
NewReportButtonRendered == screen = "report" /\ btcPrice # JNull /\ report # JNull

Init ==
    /\ screen = "landing"
    /\ btcPrice = JNull
    /\ report = JNull
    /\ runs = [r \in RunIds |-> IdleRun]

(***************************************************************************)
(* startBraincast up to its await.  fetchThrows: the call fetch(...)       *)
(* itself throws (no fetch in the host); the calls sit before the try.     *)
(***************************************************************************)
startBraincast(r, fetchThrows) ==
    /\ StartButtonRendered
    /\ runs[r].pc = "idle"
    /\ \A q \in RunIds : q < r => runs[q].pc # "idle"
    /\ screen' = "loading"
    /\ btcPrice' = JNull
    /\ report' = JNull
    /\ runs' = [runs EXCEPT ![r].pc = IF fetchThrows THEN "rejected" ELSE "await"]

\* fetch('/api/btc-price').then(res => res.json()).catch(() => null) settles.
PriceSettle(r, v) ==
    /\ runs[r].pc = "await"
    /\ runs[r].pricePromise = Pending
    /\ runs' = [runs EXCEPT ![r].pricePromise = v]
    /\ UNCHANGED <<screen, btcPrice, report>>

\* fetch('/api/coinalyze-scalp').then(res => res.json()).catch(() => null) settles.
ReportSettle(r, v) ==
    /\ runs[r].pc = "await"
    /\ runs[r].reportPromise = Pending
    /\ runs' = [runs EXCEPT ![r].reportPromise = v]
    /\ UNCHANGED <<screen, btcPrice, report>>

\* Time passes while the timer of run r is armed.
Tick(r) ==
    /\ runs[r].pc = "await"
    /\ runs[r].delayPromise = "pending"
    /\ runs[r].elapsed < DelayMs
    /\ runs' = [runs EXCEPT ![r].elapsed = @ + TickMs]
    /\ UNCHANGED <<screen, btcPrice, report>>

\* The timer of run r fires: resolve() of delayPromise.
TimerFire(r) ==
    /\ runs[r].pc = "await"
    /\ runs[r].delayPromise = "pending"
    /\ runs[r].elapsed >= DelayMs
    /\ runs' = [runs EXCEPT ![r].delayPromise = "resolved"]
    /\ UNCHANGED <<screen, btcPrice, report>>

\* The continuation of startBraincast after the await, to its end.
Join(r) ==
    /\ runs[r].pc = "await"
    /\ PromiseAllSettled(runs[r])
    /\ LET s == CatchBlock(TryBlock(runs[r].pricePromise, runs[r].reportPromise))
       IN  /\ btcPrice' = s.btcPrice
           /\ report' = s.report
    /\ screen' = "report"
    /\ runs' = [runs EXCEPT ![r] = [IdleRun EXCEPT !.pc = "fulfilled"]]

\* Mutant of newReport: it also clears the data
newReportClearsData ==
    /\ NewReportButtonRendered
    /\ screen' = "landing"
    /\ btcPrice' = JNull
    /\ report' = JNull
    /\ UNCHANGED runs

newReport ==
    /\ NewReportButtonRendered
    /\ screen' = "landing"
    /\ UNCHANGED <<btcPrice, report, runs>>

Next ==
    \/ \E r \in RunIds, fetchThrows \in BOOLEAN : startBraincast(r, fetchThrows)
    \/ \E r \in RunIds, v \in PriceResults : PriceSettle(r, v)
    \/ \E r \in RunIds, v \in ReportResults : ReportSettle(r, v)
    \/ \E r \in RunIds : Tick(r)
    \/ \E r \in RunIds : TimerFire(r)
    \/ \E r \in RunIds : Join(r)
    \/ newReport

Spec == Init /\ [][Next]_vars

\* The host settles every fetch, lets time pass, fires due timers and runs
\* ready continuations; the user is under no obligation to click.
FairSpec ==
    /\ Spec
    /\ \A r \in RunIds :
        /\ WF_vars(\E v \in PriceResults : PriceSettle(r, v))
        /\ WF_vars(\E v \in ReportResults : ReportSettle(r, v))
        /\ WF_vars(Tick(r))
        /\ WF_vars(TimerFire(r))
        /\ WF_vars(Join(r))


(***************************************************************************)
(* Vocabulary of the properties.  These read a result or a stored value    *)
(* directly, without going through the operators that model the code.      *)
(***************************************************************************)
\* v is null or a value JSON.parse can produce
IsJson(v) == v.t \in {"null", "number", "string", "object"}

\* v is neither undefined nor null
IsSet(v) == v.t \notin {"undefined", "null"}

\* the field k of result d; undefined when d is no object or has no such field
FieldOf(d, k) == IF d.t = "object" /\ k \in DOMAIN d.f THEN d.f[k] ELSE Undefined

\* the first of a, b, c that is set (c is a constant)
FirstSet(a, b, c) == IF IsSet(a) THEN a ELSE IF IsSet(b) THEN b ELSE c

\* v is absent, null, "" or 0
Falsy(v) ==
    \/ v.t \in {"undefined", "null"}
    \/ v.t = "number" /\ v.n = 0
    \/ v.t = "string" /\ v.s = ""

\* run r returns in this step
Returns(r) == runs[r].pc = "await" /\ runs'[r].pc = "fulfilled"

\* run r is invoked in this step
Invoked(r) == runs[r].pc = "idle" /\ runs'[r].pc # "idle"

\* The numeric fields of a report taken field by field from result d.
ChainsOf(d, dir) ==
    [ direction |-> dir,
      entryPrice |-> FirstSet(FieldOf(d, "entryPrice"),
                              FieldOf(FieldOf(d, "technicalData"), "entryPrice"),
                              Num(11950000)),
      targetPrice |-> FirstSet(FieldOf(d, "targetPrice"), FieldOf(d, "exitPrice"),
                               Num(12150000)),
      stopPrice |-> FirstSet(FieldOf(d, "stopPrice"), FieldOf(d, "stopLoss"),
                             Num(11920000)),
      leverage |-> FirstSet(FieldOf(d, "leverage"), Num(3000), Num(3000)) ]

TheFallbackPrice == [price |-> Num(11327900), change24h |-> Num(-276)]

TheFallbackReport ==
    [ direction |-> Str("LONG"), entryPrice |-> Num(11950000),
      targetPrice |-> Num(12150000), stopPrice |-> Num(11920000),
      leverage |-> Num(3000) ]

(***************************************************************************)
(* C1                                                                      *)
(***************************************************************************)
\* C1: whenever the report screen is shown, btcPrice and report are both
\* non-null and every one of their fields is set.
C1_ReportScreenHasData ==
    screen = "report" =>
        /\ btcPrice # JNull
        /\ report # JNull
        /\ DOMAIN btcPrice = {"price", "change24h"}
        /\ \A k \in DOMAIN btcPrice : IsSet(btcPrice[k])
        /\ DOMAIN report =
             {"direction", "entryPrice", "targetPrice", "stopPrice", "leverage"}
        /\ \A k \in DOMAIN report : IsSet(report[k])

\* A report screen reached after an earlier report was dismissed.
C1_Witness ==
    /\ screen = "report"
    /\ runs[2].pc = "fulfilled"
    /\ btcPrice # JNull
    /\ report # JNull

(***************************************************************************)
(* C2                                                                      *)
(***************************************************************************)
\* C2: every run that has put the screen in loading eventually puts it in
\* report (under FairSpec: fetches settle, time passes, the timer fires and
\* the continuation runs).
C2_LoadingLeadsToReport == (screen = "loading") ~> (screen = "report")

(***************************************************************************)
(* C3                                                                      *)
(***************************************************************************)
\* C3: a run returns (and shows the report) only once its price fetch and
\* its report fetch have settled and its timer has fired, 3500 ms or more
\* after it was armed; while one of the three is outstanding the screen
\* stays loading and neither btcPrice nor report is written.
C3_JoinWaitsForAllThree ==
    /\ [](\A r \in RunIds :
            ( /\ runs[r].pc = "await"
              /\ \/ runs[r].pricePromise = Pending
                 \/ runs[r].reportPromise = Pending
                 \/ runs[r].delayPromise = "pending" )
            => screen = "loading" /\ btcPrice = JNull /\ report = JNull)
    /\ [][\A r \in RunIds :
            Returns(r) =>
                /\ runs[r].pricePromise # Pending
                /\ runs[r].reportPromise # Pending
                /\ runs[r].delayPromise = "resolved"
                /\ runs[r].elapsed >= 3500]_vars

\* Both fetches have settled, the timer has not fired: still loading.
C3_Witness ==
    \E r \in RunIds :
        /\ runs[r].pc = "await"
        /\ runs[r].pricePromise # Pending
        /\ runs[r].reportPromise # Pending
        /\ runs[r].delayPromise = "pending"
        /\ runs[r].elapsed < 3500
        /\ screen = "loading"

(***************************************************************************)
(* C4                                                                      *)
(***************************************************************************)
\* C4: when a run whose two results are null or JSON values returns, the
\* screen is report and btcPrice is the fallback {113279, -2.76} if the
\* price result has no numeric price field, and otherwise {the integer
\* nearest to price, change24h if numeric else 0}; whatever the report
\* result and whatever was held before.
C4_PriceSnapshotNormalized ==
    [][\A r \in RunIds :
         ( /\ Returns(r)
           /\ IsJson(runs[r].pricePromise)
           /\ IsJson(runs[r].reportPromise) )
         => LET p == FieldOf(runs[r].pricePromise, "price")
                c == FieldOf(runs[r].pricePromise, "change24h")
            IN  /\ screen' = "report"
                /\ IF p.t # "number"
                   THEN btcPrice' = TheFallbackPrice
                   ELSE /\ btcPrice'.price.t = "number"
                        /\ btcPrice'.price.n % 100 = 0
                        /\ 2 * (btcPrice'.price.n - p.n) <= 100
                        /\ 2 * (p.n - btcPrice'.price.n) <= 100
                        /\ btcPrice'.change24h = IF c.t = "number" THEN c ELSE Num(0)]_vars

\* {price: 65000.7, change24h: 1.2} has been shown as {65001, 1.2}.
C4_Witness ==
    /\ screen = "report"
    /\ btcPrice = [price |-> Num(6500100), change24h |-> Num(120)]

(***************************************************************************)
(* C5                                                                      *)
(***************************************************************************)
\* C5 as stated: when a run whose two results are null or JSON values
\* returns, report is the full fallback if the report result is null or
\* carries neither a signal nor a direction field; otherwise direction is
\* signal, else direction (LONG when both are falsy), and each numeric field
\* is the first set value of its chain.
C5_ReportNormalizedByFieldPresence ==
    [][\A r \in RunIds :
         ( /\ Returns(r)
           /\ IsJson(runs[r].pricePromise)
           /\ IsJson(runs[r].reportPromise) )
         => LET d == runs[r].reportPromise
                sig == FieldOf(d, "signal")
                dir == FieldOf(d, "direction")
            IN  IF sig = Undefined /\ dir = Undefined
                THEN report' = TheFallbackReport
                ELSE report' = ChainsOf(d, IF ~Falsy(sig) THEN sig
                                           ELSE IF ~Falsy(dir) THEN dir
                                           ELSE Str("LONG"))]_vars

\* C5 amended: the full fallback is used if the report result is null or
\* both its signal and its direction are falsy (absent, null, "", 0);
\* otherwise direction is signal if that is truthy, else direction, and each
\* numeric field is the first value of its chain that is neither undefined
\* nor null.
C5_ReportNormalizedByTruthiness ==
    [][\A r \in RunIds :
         ( /\ Returns(r)
           /\ IsJson(runs[r].pricePromise)
           /\ IsJson(runs[r].reportPromise) )
         => LET d == runs[r].reportPromise
                sig == FieldOf(d, "signal")
                dir == FieldOf(d, "direction")
            IN  IF Falsy(sig) /\ Falsy(dir)
                THEN report' = TheFallbackReport
                ELSE report' = ChainsOf(d, IF ~Falsy(sig) THEN sig ELSE dir)]_vars

\* {signal: SHORT, entryPrice: 70000, stopLoss: 71500} has been shown as
\* {SHORT, 70000, 121500, 71500, 30}.
C5_Witness ==
    /\ screen = "report"
    /\ report = [ direction |-> Str("SHORT"), entryPrice |-> Num(7000000),
                  targetPrice |-> Num(12150000), stopPrice |-> Num(7150000),
                  leverage |-> Num(3000) ]

(***************************************************************************)
(* C6                                                                      *)
(***************************************************************************)
\* C6 as stated: newReport leaves the screen on landing with btcPrice and
\* report both null.
C6_ResetClearsData ==
    [][(screen # "landing" /\ screen' = "landing")
         => btcPrice' = JNull /\ report' = JNull]_vars

\* C6 amended: newReport leaves the screen on landing and btcPrice and
\* report exactly as they were; they are cleared by the next startBraincast.
C6_ResetKeepsData ==
    [][/\ (screen # "landing" /\ screen' = "landing")
           => btcPrice' = btcPrice /\ report' = report /\ runs' = runs
       /\ \A r \in RunIds :
            Invoked(r) => btcPrice' = JNull /\ report' = JNull]_vars

\* Back on landing after a completed run, the data of that run still held.
C6_Witness ==
    /\ screen = "landing"
    /\ btcPrice # JNull
    /\ report # JNull
    /\ runs[1].pc = "fulfilled"

(***************************************************************************)
(* C7                                                                      *)
(***************************************************************************)
\* C7: a non-null report has direction LONG, SHORT or NONE.
C7_DirectionInEnum ==
    report # JNull => report.direction \in {Str("LONG"), Str("SHORT"), Str("NONE")}

(***************************************************************************)
(* C8                                                                      *)
(***************************************************************************)
\* C8: no exception leaves startBraincast, and a run in which one was
\* thrown returns with btcPrice and report at their fallbacks and the
\* screen on report.
C8_ExceptionsCaught ==
    [][\A r \in RunIds :
         /\ runs'[r].pc # runs[r].pc => runs'[r].pc # "rejected"
         /\ ( /\ Returns(r)
              /\ \/ runs[r].pricePromise = Poison
                 \/ runs[r].reportPromise = Poison )
            => /\ btcPrice' = TheFallbackPrice
               /\ report' = TheFallbackReport
               /\ screen' = "report"]_vars

(***************************************************************************)
(* C9                                                                      *)
(***************************************************************************)
\* C9: the screen changes only landing -> loading when a run is invoked,
\* loading -> report when a run returns, and report -> landing by newReport.
C9_ScreenTransitions ==
    [][screen' # screen =>
         \/ /\ screen = "landing" /\ screen' = "loading"
            /\ \E r \in RunIds : Invoked(r)
         \/ /\ screen = "loading" /\ screen' = "report"
            /\ \E r \in RunIds : Returns(r)
         \/ /\ screen = "report" /\ screen' = "landing"
            /\ runs' = runs]_vars

\* A full cycle landing -> loading -> report -> landing has been made.
C9_Witness ==
    /\ screen = "landing"
    /\ runs[1].pc = "fulfilled"
    /\ runs[2].pc = "idle"

(***************************************************************************)
(* C10                                                                     *)
(***************************************************************************)
\* C10: at most one run is suspended at its await at any time, and a run
\* that returns is the newest one invoked and finds screen, btcPrice and
\* report as its own start left them.
C10_SingleRunInFlight ==
    /\ [](Cardinality({r \in RunIds : runs[r].pc = "await"}) <= 1)
    /\ [][\A r \in RunIds :
            Returns(r) =>
                /\ \A q \in RunIds : q > r => runs[q].pc = "idle"
                /\ screen = "loading"
                /\ btcPrice = JNull
                /\ report = JNull]_vars

\* A second run is in flight after the first one has returned.
C10_Witness ==
    /\ runs[1].pc = "fulfilled"
    /\ runs[2].pc = "await"
    /\ runs[2].pricePromise # Pending

=============================================================================
